---- MODULE Spec2Model ----
(***************************************************************************)
(* Model of the OpenAPI archive pipeline (src/main.py) and of the          *)
(* transformer reorder_openapi_paths (src/main.py, src/reorder_openapi.py).*)
(*                                                                         *)
(* A JSON object is an insertion-ordered mapping (a Python dict); it is    *)
(* modelled as a sequence of key/value records with distinct keys, so      *)
(* that key order is part of the value.  An optional key is a has* flag.   *)
(*                                                                         *)
(*   document      [hasPaths, paths, hasComponents, hasSchemes, schemes]   *)
(*   paths         Seq([path, operations])                                 *)
(*   operations    Seq([method, details])     (members of a path item)     *)
(*   details       [isDict, hasSecurity, security, hasTags, tags]          *)
(*   security      Seq([name, scopes])        (single-entry mappings)      *)
(*   schemes       Seq([name, hasDescription, description])                *)
(***************************************************************************)
EXTENDS Integers, Sequences, FiniteSets, TLC

VARIABLES
    \* ---- transformer harness (specification SpecT) ----
    tin,          \* document given to the transformer
    tmid,         \* document after the path reordering step
    tout,         \* document after the whole transformation
    tout2,        \* document after transforming tout again
    tphase,       \* "input" | "reordered" | "once" | "twice"
    \* ---- pipeline (specification Spec) ----
    pc,           \* position of main()
    exit_code,    \* process outcome, -1 while running
    data,         \* result of download_file
    has_changes,  \* result of git_diff
    work,         \* working directory: file name -> text
    index,        \* git index: file name -> text
    commits,      \* history of the current branch, oldest first
    pushed,       \* number of commits the remote has
    trace,        \* stages executed in the current run, in order
    failed,       \* stage that failed in the current run, or "none"
    diff_raised,  \* git_diff took one of its except branches in this run
    runs          \* number of invocations of main() so far

tvars == <<tin, tmid, tout, tout2, tphase>>
pvars == <<pc, exit_code, data, has_changes, work, index, commits, pushed,
           trace, failed, diff_raised, runs>>
vars == <<tin, tmid, tout, tout2, tphase,
          pc, exit_code, data, has_changes, work, index, commits, pushed,
          trace, failed, diff_raised, runs>>

(***************************************************************************)
(* Bounds of the input family.                                             *)
(***************************************************************************)
MaxSec == 2      \* longest security sequence of an operation
MaxTags == 2     \* longest tags sequence of an operation
MaxRuns == 2     \* invocations of main() by the external scheduler

(***************************************************************************)
(* Generic helpers on sequences.                                           *)
(***************************************************************************)
Range(s) == {s[i] : i \in 1..Len(s)}

SeqsUpTo(S, n) == UNION {[1..k -> S] : k \in 0..n}

\* sequences without repetition over S
DistinctSeqs(S) ==
    {s \in SeqsUpTo(S, Cardinality(S)) :
        \A i, j \in 1..Len(s) : i # j => s[i] # s[j]}

(***************************************************************************)
(* Constructors of JSON values.                                            *)
(***************************************************************************)
Entry(n, sc) == [name |-> n, scopes |-> sc]

Operation(hs, sec, ht, tg) ==
    [isDict |-> TRUE, hasSecurity |-> hs, security |-> sec,
     hasTags |-> ht, tags |-> tg]

\* a member of a path item that is not an object (a string, a list)
NonDict ==
    [isDict |-> FALSE, hasSecurity |-> FALSE, security |-> <<>>,
     hasTags |-> FALSE, tags |-> <<>>]

Member(m, d) == [method |-> m, details |-> d]

PathEntry(p, ops) == [path |-> p, operations |-> ops]

Scheme(n, hd, d) == [name |-> n, hasDescription |-> hd, description |-> d]

Document(hp, ps, hc, hs, ss) ==
    [hasPaths |-> hp, paths |-> ps, hasComponents |-> hc,
     hasSchemes |-> hs, schemes |-> ss]

EmptyDoc == Document(FALSE, <<>>, FALSE, FALSE, <<>>)

(***************************************************************************)
(* reorder_openapi_paths: step 1, path reordering.                         *)
(***************************************************************************)
HasPath(paths, p) == \E i \in 1..Len(paths) : paths[i].path = p

PathValue(paths, p) ==
    paths[CHOOSE i \in 1..Len(paths) : paths[i].path = p].operations

IsNotToken(e) == e.path # "/token"

\* mutant: /token is appended after the other paths
ReorderPaths_TokenLast(original_paths) ==
    SelectSeq(original_paths, IsNotToken)
    \o (IF HasPath(original_paths, "/token")
        THEN <<PathEntry("/token", PathValue(original_paths, "/token"))>>
        ELSE <<>>)

\* mutant: the first of the other paths is moved behind the rest
ReorderPaths_Rotate(original_paths) ==
    LET others == SelectSeq(original_paths, IsNotToken)
    IN  (IF HasPath(original_paths, "/token")
         THEN <<PathEntry("/token", PathValue(original_paths, "/token"))>>
         ELSE <<>>)
        \o (IF others = <<>> THEN <<>> ELSE Tail(others) \o <<Head(others)>>)

\* new_paths: /token first when present, then every other path in the
\* order of original_paths
ReorderPaths(original_paths) ==
    (IF HasPath(original_paths, "/token")
     THEN <<PathEntry("/token", PathValue(original_paths, "/token"))>>
     ELSE <<>>)
    \o SelectSeq(original_paths, IsNotToken)

\* if 'paths' in data: data['paths'] = new_paths
ReorderStep(d) ==
    IF d.hasPaths THEN [d EXCEPT !.paths = ReorderPaths(d.paths)] ELSE d

(***************************************************************************)
(* reorder_openapi_paths: step 2, security scheme consolidation.           *)
(***************************************************************************)
HasScheme(schemes, n) == \E i \in 1..Len(schemes) : schemes[i].name = n

SchemeOf(schemes, n) ==
    schemes[CHOOSE i \in 1..Len(schemes) : schemes[i].name = n]

IsNotGetToken(s) == s.name # "GetToken"

\* schemes['ApiKey']['description'] = schemes['GetToken']['description']
\* (when both exist), then del schemes['GetToken']
RewriteSchemes(schemes) ==
    LET gt == SchemeOf(schemes, "GetToken")
        merged ==
            [i \in 1..Len(schemes) |->
                IF schemes[i].name = "ApiKey" /\ gt.hasDescription
                THEN [schemes[i] EXCEPT !.hasDescription = TRUE,
                                        !.description = gt.description]
                ELSE schemes[i]]
    IN  SelectSeq(merged, IsNotGetToken)

\* mutant: the renamed entry loses its scope list
RenameEntry_DropScopes(scheme) ==
    IF scheme.name = "GetToken" THEN Entry("ApiKey", <<>>) ELSE scheme

\* mutant: the key of the entry is not renamed
RenameEntry_Keep(scheme) == scheme

\* scheme['ApiKey'] = scheme.pop('GetToken')
RenameEntry(scheme) ==
    IF scheme.name = "GetToken"
    THEN [scheme EXCEPT !.name = "ApiKey"]
    ELSE scheme

\* for scheme in details['security']: ...   (in place, same positions)
RenameSecurity(security) ==
    [i \in 1..Len(security) |-> RenameEntry(security[i])]

\* mutant: the default names the wrong scheme
DefaultSecurity_ApiKey == <<Entry("ApiKey", <<>>)>>

\* [{"ApiToken": []}]
DefaultSecurity == <<Entry("ApiToken", <<>>)>>

\* ['Deny List' if tag == 'DenyList' else tag for tag in details['tags']]
RenameTags(tags) ==
    [i \in 1..Len(tags) |-> IF tags[i] = "DenyList" THEN "Deny List" ELSE tags[i]]

\* mutant: operations without a security field are left as they are
RewriteOperation_NoDefault(details) ==
    IF ~details.isDict THEN details
    ELSE LET a == IF details.hasSecurity
                  THEN [details EXCEPT !.security = RenameSecurity(details.security)]
                  ELSE details
         IN  IF a.hasTags THEN [a EXCEPT !.tags = RenameTags(a.tags)] ELSE a

\* mutant: the tags are renamed only in the branch of operations that
\* declare a security field
RewriteOperation_TagsWithSecurity(details) ==
    IF ~details.isDict THEN details
    ELSE IF details.hasSecurity
         THEN LET a == [details EXCEPT !.security = RenameSecurity(details.security)]
              IN  IF a.hasTags THEN [a EXCEPT !.tags = RenameTags(a.tags)] ELSE a
         ELSE [details EXCEPT !.hasSecurity = TRUE, !.security = DefaultSecurity]

\* body of the loop over the members of one path item
RewriteOperation(details) ==
    IF ~details.isDict THEN details
    ELSE LET a == IF details.hasSecurity
                  THEN [details EXCEPT !.security = RenameSecurity(details.security)]
                  ELSE [details EXCEPT !.hasSecurity = TRUE,
                                       !.security = DefaultSecurity]
         IN  IF a.hasTags THEN [a EXCEPT !.tags = RenameTags(a.tags)] ELSE a

\* for method, details in operations.items()
RewriteOperations(operations) ==
    [i \in 1..Len(operations) |->
        [operations[i] EXCEPT !.details = RewriteOperation(operations[i].details)]]

\* for path, operations in data['paths'].items()
RewritePaths(paths) ==
    [i \in 1..Len(paths) |->
        [paths[i] EXCEPT !.operations = RewriteOperations(paths[i].operations)]]

\* 'components' in data and 'securitySchemes' in data['components'] and
\* 'GetToken' in schemes
GetTokenDeclared(d) ==
    d.hasComponents /\ d.hasSchemes /\ HasScheme(d.schemes, "GetToken")

\* mutant: the operations are rewritten whether or not GetToken is declared
ConsolidateStep_Ungated(d) ==
    IF GetTokenDeclared(d)
    THEN [d EXCEPT !.schemes = RewriteSchemes(d.schemes),
                   !.paths = IF d.hasPaths THEN RewritePaths(d.paths) ELSE d.paths]
    ELSE [d EXCEPT !.paths = IF d.hasPaths THEN RewritePaths(d.paths) ELSE d.paths]

ConsolidateStep(d) ==
    IF GetTokenDeclared(d)
    THEN [d EXCEPT !.schemes = RewriteSchemes(d.schemes),
                   !.paths = IF d.hasPaths THEN RewritePaths(d.paths) ELSE d.paths]
    ELSE d

\* the document that reorder_openapi_paths dumps, from the one it loaded
Transform(d) == ConsolidateStep(ReorderStep(d))

(***************************************************************************)
(* Input family of the transformer: well-formed documents.                 *)
(*   DeepDocs  one path with one operation; the operation ranges over all  *)
(*             security and tags sequences up to MaxSec and MaxTags;       *)
(*   WideDocs  every ordering of every subset of PathKeys, each path with  *)
(*             a path item of WideItems.                                   *)
(* Both range over every shape of components.securitySchemes.              *)
(***************************************************************************)
PathKeys == {"/token", "/a", "/b"}

Entries ==
    {Entry("GetToken", <<>>), Entry("GetToken", <<"read">>), Entry("ApiKey", <<>>)}

TagNames == {"DenyList", "Deny List", "Public"}

MemberKeys == {"get", "post", "parameters"}

SecuritySeqs == SeqsUpTo(Entries, MaxSec)

TagSeqs == SeqsUpTo(TagNames, MaxTags)

DeepOperations ==
    {Operation(hs, sec, ht, tg) :
        hs \in {TRUE}, sec \in SecuritySeqs, ht \in {TRUE}, tg \in TagSeqs}
    \cup {Operation(FALSE, <<>>, TRUE, tg) : tg \in TagSeqs}
    \cup {Operation(TRUE, sec, FALSE, <<>>) : sec \in SecuritySeqs}
    \cup {Operation(FALSE, <<>>, FALSE, <<>>)}

WideItems ==
    { <<>>,
      <<Member("get", Operation(FALSE, <<>>, FALSE, <<>>))>>,
      <<Member("get", Operation(TRUE, <<Entry("GetToken", <<>>)>>, TRUE,
                                <<"DenyList">>))>>,
      <<Member("parameters", NonDict),
        Member("post", Operation(TRUE, <<Entry("ApiKey", <<>>)>>, FALSE, <<>>))>>,
      <<Member("post", Operation(FALSE, <<>>, TRUE, <<"Public", "DenyList">>)),
        Member("get", Operation(TRUE, <<Entry("ApiKey", <<>>),
                                        Entry("GetToken", <<"read">>)>>,
                                FALSE, <<>>))>> }

SchemeChoices ==
    {Scheme("GetToken", FALSE, ""), Scheme("GetToken", TRUE, "x"),
     Scheme("ApiKey", FALSE, ""), Scheme("ApiKey", TRUE, "y")}

\* scheme mappings: no scheme name twice
SchemeSeqs ==
    {s \in SeqsUpTo(SchemeChoices, 2) :
        \A i, j \in 1..Len(s) : i # j => s[i].name # s[j].name}

PathSeqs(items) ==
    UNION {{[i \in 1..Len(ks) |-> PathEntry(ks[i], f[i])] :
                f \in [1..Len(ks) -> items]} : ks \in DistinctSeqs(PathKeys)}

WithComponents(hp, ps) ==
    {Document(hp, ps, FALSE, FALSE, <<>>), Document(hp, ps, TRUE, FALSE, <<>>)}
    \cup {Document(hp, ps, TRUE, TRUE, ss) : ss \in SchemeSeqs}

DeepDocs ==
    UNION {WithComponents(TRUE, <<PathEntry("/a", <<Member("get", op)>>)>>) :
              op \in DeepOperations}

WideDocs ==
    WithComponents(FALSE, <<>>)
    \cup UNION {WithComponents(TRUE, ps) : ps \in PathSeqs(WideItems)}

TDocs == DeepDocs \cup WideDocs

(***************************************************************************)
(* Transformer harness: apply the two steps, then the whole again.         *)
(***************************************************************************)
PipelineIdle ==
    /\ pc = "idle" /\ exit_code = -1 /\ data = EmptyDoc /\ has_changes = FALSE
    /\ work = <<>> /\ index = <<>> /\ commits = <<>> /\ pushed = 0
    /\ trace = <<>> /\ failed = "none" /\ diff_raised = FALSE /\ runs = 0

InitT ==
    /\ tin \in TDocs
    /\ tmid = EmptyDoc /\ tout = EmptyDoc /\ tout2 = EmptyDoc
    /\ tphase = "input"
    /\ PipelineIdle

\* src lines 205-219
TReorder ==
    /\ tphase = "input"
    /\ tmid' = ReorderStep(tin)
    /\ tphase' = "reordered"
    /\ UNCHANGED <<tin, tout, tout2>>
    /\ UNCHANGED pvars

\* src lines 221-251
TConsolidate ==
    /\ tphase = "reordered"
    /\ tout' = ConsolidateStep(tmid)
    /\ tphase' = "once"
    /\ UNCHANGED <<tin, tmid, tout2>>
    /\ UNCHANGED pvars

\* the transformer applied to its own output
TAgain ==
    /\ tphase = "once"
    /\ tout2' = Transform(tout)
    /\ tphase' = "twice"
    /\ UNCHANGED <<tin, tmid, tout>>
    /\ UNCHANGED pvars

NextT == TReorder \/ TConsolidate \/ TAgain

SpecT == InitT /\ [][NextT]_vars

(***************************************************************************)
(* Vocabulary of the transformer properties.  An operation of the input    *)
(* and the same operation of the output are matched by path key and by     *)
(* member key, never by position in the paths mapping.                     *)
(***************************************************************************)
Keys(paths) == [i \in 1..Len(paths) |-> paths[i].path]

Pos(ks, k) == CHOOSE i \in 1..Len(ks) : ks[i] = k

HasMember(operations, m) == \E j \in 1..Len(operations) : operations[j].method = m

DetailsOf(operations, m) ==
    operations[CHOOSE j \in 1..Len(operations) : operations[j].method = m].details

\* the (path, method) pairs of the operation objects of a document
OperationsOf(d) ==
    {pm \in PathKeys \X MemberKeys :
        /\ HasPath(d.paths, pm[1])
        /\ HasMember(PathValue(d.paths, pm[1]), pm[2])
        /\ DetailsOf(PathValue(d.paths, pm[1]), pm[2]).isDict}

OpAt(d, pm) == DetailsOf(PathValue(d.paths, pm[1]), pm[2])

MentionsGetToken(security) ==
    \E i \in 1..Len(security) : security[i].name = "GetToken"

\* /token first when present, the other keys in the relative order of ks
TokenFirstOrder(ks, out) ==
    /\ Len(out) = Len(ks)
    /\ Range(out) = Range(ks)
    /\ "/token" \in Range(ks) => out[1] = "/token"
    /\ "/token" \notin Range(ks) => out = ks
    /\ \A a, b \in Range(ks) \ {"/token"} :
          (Pos(out, a) < Pos(out, b)) <=> (Pos(ks, a) < Pos(ks, b))

(***************************************************************************)
(* C4 as stated: after the transformation every operation object has a     *)
(* security field that is a non-empty sequence.  Refuted by a document     *)
(* that declares no GetToken scheme.                                       *)
(***************************************************************************)
C4_EveryOperationSecured ==
    tphase = "once" =>
        \A pm \in OperationsOf(tout) :
            OpAt(tout, pm).hasSecurity /\ OpAt(tout, pm).security # <<>>

(***************************************************************************)
(* C4 amended: after the transformation of a document whose                *)
(* components.securitySchemes contains GetToken, every operation object    *)
(* has a security field, and the field is non-empty unless the input       *)
(* operation declared an empty security sequence.                          *)
(***************************************************************************)
C4_SecuredWhenGetTokenDeclared ==
    (tphase = "once" /\ GetTokenDeclared(tin)) =>
        /\ OperationsOf(tout) = OperationsOf(tin)
        /\ \A pm \in OperationsOf(tout) :
              /\ OpAt(tout, pm).hasSecurity
              /\ OpAt(tout, pm).security = <<>> =>
                    (OpAt(tin, pm).hasSecurity /\ OpAt(tin, pm).security = <<>>)

C4_Witness ==
    /\ tphase = "once" /\ GetTokenDeclared(tin)
    /\ \E pm \in OperationsOf(tin) : ~OpAt(tin, pm).hasSecurity
    /\ \E pm \in OperationsOf(tin) : OpAt(tin, pm).security # <<>>

(***************************************************************************)
(* C5: for a document whose securitySchemes contains GetToken, after the   *)
(* transformation (i) GetToken is no scheme, (ii) if ApiKey exists and     *)
(* GetToken had a description, ApiKey has that description, (iii) every    *)
(* security entry keyed GetToken is keyed ApiKey with the same scope list  *)
(* at the same position, and every other entry is unchanged.               *)
(***************************************************************************)
C5_SchemeConsolidation ==
    (tphase = "once" /\ GetTokenDeclared(tin)) =>
        /\ ~HasScheme(tout.schemes, "GetToken")
        /\ (HasScheme(tin.schemes, "ApiKey")
              /\ SchemeOf(tin.schemes, "GetToken").hasDescription) =>
                 /\ HasScheme(tout.schemes, "ApiKey")
                 /\ SchemeOf(tout.schemes, "ApiKey").hasDescription
                 /\ SchemeOf(tout.schemes, "ApiKey").description =
                        SchemeOf(tin.schemes, "GetToken").description
        /\ \A pm \in OperationsOf(tin) :
              OpAt(tin, pm).hasSecurity =>
                 LET a == OpAt(tin, pm).security
                     b == OpAt(tout, pm).security
                 IN  /\ OpAt(tout, pm).hasSecurity
                     /\ Len(b) = Len(a)
                     /\ \A i \in 1..Len(a) :
                           IF a[i].name = "GetToken"
                           THEN b[i] = Entry("ApiKey", a[i].scopes)
                           ELSE b[i] = a[i]

C5_Witness ==
    /\ tphase = "once" /\ GetTokenDeclared(tin)
    /\ HasScheme(tin.schemes, "ApiKey")
    /\ SchemeOf(tin.schemes, "ApiKey").description = "y"
    /\ SchemeOf(tin.schemes, "GetToken").description = "x"
    /\ \E pm \in OperationsOf(tin) :
          /\ Len(OpAt(tin, pm).security) = 2
          /\ OpAt(tin, pm).security[2] = Entry("GetToken", <<"read">>)
          /\ OpAt(tout, pm).security[2] = Entry("ApiKey", <<"read">>)

(***************************************************************************)
(* C6: the path reordering step puts /token first when it is a key and     *)
(* keeps the other keys in their original relative order; every key keeps  *)
(* its value, no key is added or dropped; without /token the order is the  *)
(* input order.  The key order is also that of the final output.           *)
(***************************************************************************)
C6_PathReordering ==
    /\ (tphase = "reordered" /\ tin.hasPaths) =>
          /\ TokenFirstOrder(Keys(tin.paths), Keys(tmid.paths))
          /\ \A k \in Range(Keys(tin.paths)) :
                PathValue(tmid.paths, k) = PathValue(tin.paths, k)
    /\ (tphase = "once" /\ tin.hasPaths) =>
          /\ TokenFirstOrder(Keys(tin.paths), Keys(tout.paths))
          /\ ~GetTokenDeclared(tin) =>
                \A k \in Range(Keys(tin.paths)) :
                    PathValue(tout.paths, k) = PathValue(tin.paths, k)

C6_Witness ==
    /\ tphase = "reordered"
    /\ Keys(tin.paths) = <<"/b", "/token", "/a">>
    /\ Keys(tmid.paths) = <<"/token", "/b", "/a">>

\* GetToken occurs in the scheme mapping or in some operation's security
GetTokenSomewhere(d) ==
    \/ GetTokenDeclared(d)
    \/ \E pm \in OperationsOf(d) : MentionsGetToken(OpAt(d, pm).security)

InjectionHolds ==
    \A pm \in OperationsOf(tin) :
        /\ ~OpAt(tin, pm).hasSecurity =>
              /\ OpAt(tout, pm).hasSecurity
              /\ OpAt(tout, pm).security = <<Entry("ApiToken", <<>>)>>
        /\ (OpAt(tin, pm).hasSecurity
              /\ ~MentionsGetToken(OpAt(tin, pm).security)) =>
              /\ OpAt(tout, pm).hasSecurity
              /\ OpAt(tout, pm).security = OpAt(tin, pm).security

(***************************************************************************)
(* C7 as stated: whenever GetToken is present somewhere in the input       *)
(* document, every operation without a security field ends with            *)
(* security = [ApiToken: []] and every operation whose security does not   *)
(* mention GetToken keeps it.  Refuted by a document where GetToken        *)
(* occurs only in an operation's security sequence.                        *)
(***************************************************************************)
C7_InjectionWhenGetTokenSomewhere ==
    (tphase = "once" /\ GetTokenSomewhere(tin)) => InjectionHolds

(***************************************************************************)
(* C7 amended: whenever GetToken is a scheme of components.securitySchemes *)
(* of the input document, every operation without a security field ends    *)
(* with security = [ApiToken: []] and every operation whose security does  *)
(* not mention GetToken keeps it.                                          *)
(***************************************************************************)
C7_InjectionWhenGetTokenDeclared ==
    (tphase = "once" /\ GetTokenDeclared(tin)) => InjectionHolds

C7_Witness ==
    /\ tphase = "once" /\ GetTokenDeclared(tin)
    /\ \E pm \in OperationsOf(tin) :
          ~OpAt(tin, pm).hasSecurity
          /\ OpAt(tout, pm).security = <<Entry("ApiToken", <<>>)>>
    /\ \E pm \in OperationsOf(tin) :
          /\ OpAt(tin, pm).hasSecurity
          /\ OpAt(tin, pm).security # <<>>
          /\ ~MentionsGetToken(OpAt(tin, pm).security)

(***************************************************************************)
(* C8: transforming the output of the transformer again changes nothing:   *)
(* transform(transform(d)) = transform(d), orders included.                *)
(***************************************************************************)
C8_Idempotent ==
    tphase = "twice" => tout2 = tout

C8_Witness ==
    /\ tphase = "twice"
    /\ GetTokenDeclared(tin)
    /\ Len(tin.paths) = 3 /\ tin.paths[3].path = "/token"
    /\ tout # tin
    /\ \E pm \in OperationsOf(tin) : MentionsGetToken(OpAt(tin, pm).security)
    /\ \E pm \in OperationsOf(tin) : "DenyList" \in Range(OpAt(tin, pm).tags)

(***************************************************************************)
(* Serialization.  A text is modelled by what parsing it yields together   *)
(* with its layout.  json.dumps(..., sort_keys=True) writes the keys of    *)
(* every mapping in ascending order; json.dump without sort_keys keeps the *)
(* insertion order.                                                        *)
(***************************************************************************)
\* the key strings of the model in Python's str order (code points)
KeyOrder ==
    <<"/a", "/b", "/token", "ApiKey", "ApiToken", "GetToken",
      "get", "parameters", "post">>

Rank(k) == CHOOSE i \in 1..Len(KeyOrder) : KeyOrder[i] = k

\* s ordered by its keys ks (ks[i] is the key of s[i]): the element whose
\* key has exactly i-1 smaller keys comes i-th
SortedBy(s, ks) ==
    [i \in 1..Len(s) |->
        s[CHOOSE j \in 1..Len(s) :
            Cardinality({k \in 1..Len(s) : Rank(ks[k]) < Rank(ks[j])}) = i - 1]]

MethodKeys(operations) == [j \in 1..Len(operations) |-> operations[j].method]

PathKeysOf(paths) == [i \in 1..Len(paths) |-> paths[i].path]

SchemeKeys(schemes) == [i \in 1..Len(schemes) |-> schemes[i].name]

\* mutant: the keys are written in insertion order
SortDoc_InsertionOrder(d) == d

\* the document as json.dumps(data, sort_keys=True) writes it
SortDoc(d) ==
    [d EXCEPT
        !.paths = SortedBy(
            [i \in 1..Len(d.paths) |->
                [d.paths[i] EXCEPT
                    !.operations = SortedBy(d.paths[i].operations,
                                            MethodKeys(d.paths[i].operations))]],
            PathKeysOf(d.paths)),
        !.schemes = SortedBy(d.schemes, SchemeKeys(d.schemes))]

Text(f, d) == [fmt |-> f, doc |-> d]

NoFile == Text("absent", EmptyDoc)

\* what a failed write may leave behind: a truncated file
Partial == Text("partial", EmptyDoc)

\* json.dumps(data, indent=4, sort_keys=True, ensure_ascii=False)
DumpsSorted(d) == Text("indent4", SortDoc(d))

\* json.dump(data, f, indent=2)
DumpPretty(d) == Text("indent2", d)

\* json.dump(data, f)
DumpCompact(d) == Text("compact", d)

\* json.load(f)
Loads(t) == t.doc

(***************************************************************************)
(* Files and the versioned storage.                                        *)
(***************************************************************************)
OUTPUT_FILE == "openapi.json"

PRETTY_FILE == "openapi_transformed.json"

COMPACT_FILE == "openapi_transformed_compressed.json"

Files == {OUTPUT_FILE, PRETTY_FILE, COMPACT_FILE}

Commit(m, t) == [message |-> m, tree |-> t]

HeadTree == commits[Len(commits)].tree

\* filename in repo.untracked_files
Untracked(filename) == work[filename] # NoFile /\ index[filename] = NoFile

\* git_diff(filename) when no exception is raised
DiffResult(filename) ==
    \/ Untracked(filename)
    \/ index[filename] # HeadTree[filename]        \* has_staged
    \/ index[filename] # work[filename]            \* has_unstaged
    \/ work[filename] # HeadTree[filename]         \* repo.git.diff('HEAD', ..)

\* repo.index.add(files)
IndexAdd(files) == [f \in Files |-> IF f \in files THEN work[f] ELSE index[f]]

(***************************************************************************)
(* The documents the upstream serves.                                      *)
(***************************************************************************)
DocA ==
    Document(TRUE,
        <<PathEntry("/b", <<Member("post", Operation(FALSE, <<>>, TRUE, <<"DenyList">>)),
                            Member("get", Operation(TRUE, <<Entry("ApiKey", <<>>)>>,
                                                    FALSE, <<>>))>>),
          PathEntry("/token", <<Member("post", Operation(TRUE,
                                    <<Entry("GetToken", <<>>)>>, FALSE, <<>>))>>),
          PathEntry("/a", <<Member("get", Operation(FALSE, <<>>, FALSE, <<>>))>>)>>,
        TRUE, TRUE,
        <<Scheme("GetToken", TRUE, "x"), Scheme("ApiKey", TRUE, "y")>>)

\* the content of DocA, its keys listed in another order
DocB ==
    Document(TRUE,
        <<PathEntry("/token", <<Member("post", Operation(TRUE,
                                    <<Entry("GetToken", <<>>)>>, FALSE, <<>>))>>),
          PathEntry("/a", <<Member("get", Operation(FALSE, <<>>, FALSE, <<>>))>>),
          PathEntry("/b", <<Member("get", Operation(TRUE, <<Entry("ApiKey", <<>>)>>,
                                                    FALSE, <<>>)),
                            Member("post", Operation(FALSE, <<>>, TRUE, <<"DenyList">>))>>)>>,
        TRUE, TRUE,
        <<Scheme("ApiKey", TRUE, "y"), Scheme("GetToken", TRUE, "x")>>)

DocC ==
    Document(TRUE,
        <<PathEntry("/b", <<Member("get", Operation(FALSE, <<>>, FALSE, <<>>))>>),
          PathEntry("/a", <<Member("get", Operation(TRUE, <<Entry("ApiKey", <<>>)>>,
                                                    TRUE, <<"Public">>))>>)>>,
        TRUE, TRUE, <<Scheme("ApiKey", FALSE, "")>>)

FetchDocs == {DocA, DocB, DocC}

(***************************************************************************)
(* main(): one action per step.  A step that fails returns 1 ("aborted");  *)
(* an exception that main() does not catch ends the process with status 1  *)
(* ("crashed"); return 0 is "done".  The outcome of every collaborator     *)
(* call is drawn with \E.                                                  *)
(***************************************************************************)
TransformerIdle ==
    /\ tin = EmptyDoc /\ tmid = EmptyDoc /\ tout = EmptyDoc /\ tout2 = EmptyDoc
    /\ tphase = "idle"

\* an initialised repository with a remote and nothing archived yet
Init ==
    /\ TransformerIdle
    /\ pc = "start" /\ exit_code = -1
    /\ data = EmptyDoc /\ has_changes = FALSE
    /\ work = [f \in Files |-> NoFile]
    /\ index = [f \in Files |-> NoFile]
    /\ commits = <<Commit("initial", [f \in Files |-> NoFile])>>
    /\ pushed = 1
    /\ trace = <<>> /\ failed = "none" /\ diff_raised = FALSE
    /\ runs = 1

Storage == <<work, index, commits, pushed>>

\* "return 1" after the failure of a stage
Abort(stage) ==
    /\ pc' = "aborted" /\ exit_code' = 1 /\ failed' = stage

\* mutant: the missing location is noticed but main() goes on
MainConfig_GoesOn ==
    /\ pc = "start"
    /\ \E url_set \in BOOLEAN :
          /\ pc' = "configured"
          /\ failed' = IF url_set THEN failed ELSE "config"
    /\ UNCHANGED <<exit_code, data, has_changes, trace, diff_raised, runs>>
    /\ UNCHANGED Storage
    /\ UNCHANGED tvars

\* API_URL = os.environ.get(...); if not API_URL: return 1
MainConfig ==
    /\ pc = "start"
    /\ \E url_set \in BOOLEAN :
          IF url_set
          THEN pc' = "configured" /\ UNCHANGED <<exit_code, failed>>
          ELSE Abort("config")
    /\ UNCHANGED <<data, has_changes, trace, diff_raised, runs>>
    /\ UNCHANGED Storage
    /\ UNCHANGED tvars

\* Step 1: data = download_file(API_URL); None on any failure
MainDownload ==
    /\ pc = "configured"
    /\ trace' = Append(trace, "fetch")
    /\ \/ \E d \in FetchDocs :
             /\ data' = d
             /\ pc' = "fetched"
             /\ UNCHANGED <<exit_code, failed>>
       \/ /\ Abort("fetch")
          /\ UNCHANGED data
    /\ UNCHANGED <<has_changes, diff_raised, runs>>
    /\ UNCHANGED Storage
    /\ UNCHANGED tvars

\* mutant: a failed save is tried again
MainSave_Retry ==
    /\ pc = "fetched"
    /\ trace' = Append(trace, "save")
    /\ \/ /\ work' = [work EXCEPT ![OUTPUT_FILE] = DumpsSorted(data)]
          /\ pc' = "saved"
       \/ /\ \E t \in {work[OUTPUT_FILE], Partial} :
                work' = [work EXCEPT ![OUTPUT_FILE] = t]
          /\ pc' = "fetched"
    /\ UNCHANGED <<exit_code, failed, data, has_changes, diff_raised, runs>>
    /\ UNCHANGED <<index, commits, pushed>>
    /\ UNCHANGED tvars

\* Step 2: save_file(json.dumps(data, indent=4, sort_keys=True, ...))
MainSave ==
    /\ pc = "fetched"
    /\ trace' = Append(trace, "save")
    /\ \/ /\ work' = [work EXCEPT ![OUTPUT_FILE] = DumpsSorted(data)]
          /\ pc' = "saved"
          /\ UNCHANGED <<exit_code, failed>>
       \/ /\ \E t \in {work[OUTPUT_FILE], Partial} :
                work' = [work EXCEPT ![OUTPUT_FILE] = t]
          /\ Abort("save")
    /\ UNCHANGED <<data, has_changes, diff_raised, runs>>
    /\ UNCHANGED <<index, commits, pushed>>
    /\ UNCHANGED tvars

\* Step 3: has_changes = git_diff(OUTPUT_FILE); both except branches of
\* git_diff log the error and return False
MainDiff ==
    /\ pc = "saved"
    /\ trace' = Append(trace, "diff")
    /\ \E raised \in BOOLEAN :
          /\ diff_raised' = raised
          /\ has_changes' = IF raised THEN FALSE ELSE DiffResult(OUTPUT_FILE)
    /\ pc' = "diffed"
    /\ UNCHANGED <<exit_code, data, failed, runs>>
    /\ UNCHANGED Storage
    /\ UNCHANGED tvars

\* mutant: the result of the change detector is ignored
MainBranch_Always ==
    /\ pc = "diffed"
    /\ pc' = "changed"
    /\ UNCHANGED <<exit_code, data, has_changes, trace, failed, diff_raised, runs>>
    /\ UNCHANGED Storage
    /\ UNCHANGED tvars

\* Step 4: if has_changes: ... else: log; return 0
MainBranch ==
    /\ pc = "diffed"
    /\ IF has_changes
       THEN pc' = "changed" /\ UNCHANGED exit_code
       ELSE pc' = "done" /\ exit_code' = 0
    /\ UNCHANGED <<data, has_changes, trace, failed, diff_raised, runs>>
    /\ UNCHANGED Storage
    /\ UNCHANGED tvars

\* git_commit(files, message): Repo('.'), index.add, index.commit; an
\* exception before the add changes nothing, one in the commit leaves the
\* files staged.  index.add raises when a file is missing.
GitCommit(files, message, stage, next) ==
    \/ /\ \A f \in files : work[f] # NoFile
       /\ index' = IndexAdd(files)
       /\ commits' = Append(commits, Commit(message, IndexAdd(files)))
       /\ pc' = next
       /\ UNCHANGED <<exit_code, failed>>
    \/ /\ \A f \in files : work[f] # NoFile
       /\ index' = IndexAdd(files)
       /\ UNCHANGED commits
       /\ Abort(stage)
    \/ /\ UNCHANGED <<index, commits>>
       /\ Abort(stage)

\* git_push(): True when origin.push reports neither ERROR nor REJECTED
GitPush(stage, next, final) ==
    \/ /\ pushed' = Len(commits)
       /\ pc' = next
       /\ exit_code' = final
       /\ UNCHANGED failed
    \/ /\ UNCHANGED pushed
       /\ Abort(stage)

\* mutant: the result of the raw git_commit is not tested
MainCommitRaw_Unchecked ==
    /\ pc = "changed"
    /\ trace' = Append(trace, "commit_raw")
    /\ \/ /\ index' = IndexAdd({OUTPUT_FILE})
          /\ commits' = Append(commits, Commit("Update openapi spec",
                                               IndexAdd({OUTPUT_FILE})))
       \/ UNCHANGED <<index, commits>>
    /\ pc' = "committed_raw"
    /\ UNCHANGED <<exit_code, failed, data, has_changes, diff_raised, runs>>
    /\ UNCHANGED <<work, pushed>>
    /\ UNCHANGED tvars

\* Step 4a: git_commit(OUTPUT_FILE)
MainCommitRaw ==
    /\ pc = "changed"
    /\ trace' = Append(trace, "commit_raw")
    /\ GitCommit({OUTPUT_FILE}, "Update openapi spec", "commit_raw", "committed_raw")
    /\ UNCHANGED <<data, has_changes, diff_raised, runs>>
    /\ UNCHANGED <<work, pushed>>
    /\ UNCHANGED tvars

\* mutant: the result of git_push is not tested
MainPushRaw_Unchecked ==
    /\ pc = "committed_raw"
    /\ trace' = Append(trace, "push_raw")
    /\ \/ /\ pushed' = Len(commits)
          /\ UNCHANGED failed
       \/ /\ UNCHANGED pushed
          /\ failed' = "push_raw"
    /\ pc' = "pushed_raw"
    /\ UNCHANGED <<exit_code, data, has_changes, diff_raised, runs>>
    /\ UNCHANGED <<work, index, commits>>
    /\ UNCHANGED tvars

\* Step 4a: git_push()
MainPushRaw ==
    /\ pc = "committed_raw"
    /\ trace' = Append(trace, "push_raw")
    /\ GitPush("push_raw", "pushed_raw", exit_code)
    /\ UNCHANGED <<data, has_changes, diff_raised, runs>>
    /\ UNCHANGED <<work, index, commits>>
    /\ UNCHANGED tvars

\* Step 4b: reorder_openapi_paths(OUTPUT_FILE, TRANSFORMED_OUTPUT), called
\* outside any try: it loads the saved file, transforms, writes the pretty
\* file and then the compact file; an exception leaves main() uncaught
MainTransform ==
    /\ pc = "pushed_raw"
    /\ trace' = Append(trace, "transform")
    /\ LET out == Transform(Loads(work[OUTPUT_FILE]))
       IN  \/ /\ work' = [work EXCEPT ![PRETTY_FILE] = DumpPretty(out),
                                      ![COMPACT_FILE] = DumpCompact(out)]
              /\ pc' = "transformed"
              /\ UNCHANGED <<exit_code, failed>>
           \/ /\ \E t \in {work[COMPACT_FILE], Partial} :
                    work' = [work EXCEPT ![PRETTY_FILE] = DumpPretty(out),
                                         ![COMPACT_FILE] = t]
              /\ pc' = "crashed" /\ exit_code' = 1 /\ failed' = "transform"
           \/ /\ \E t \in {work[PRETTY_FILE], Partial} :
                    work' = [work EXCEPT ![PRETTY_FILE] = t]
              /\ pc' = "crashed" /\ exit_code' = 1 /\ failed' = "transform"
    /\ UNCHANGED <<data, has_changes, diff_raised, runs>>
    /\ UNCHANGED <<index, commits, pushed>>
    /\ UNCHANGED tvars

\* mutant: only the pretty file is handed to git_commit
MainCommitTransformed_PrettyOnly ==
    /\ pc = "transformed"
    /\ trace' = Append(trace, "commit_transformed")
    /\ GitCommit({PRETTY_FILE}, "Update transformed openapi spec",
                 "commit_transformed", "committed_transformed")
    /\ UNCHANGED <<data, has_changes, diff_raised, runs>>
    /\ UNCHANGED <<work, pushed>>
    /\ UNCHANGED tvars

\* Step 4c: git_commit(transformed_files, "Update transformed openapi spec")
MainCommitTransformed ==
    /\ pc = "transformed"
    /\ trace' = Append(trace, "commit_transformed")
    /\ GitCommit({PRETTY_FILE, COMPACT_FILE}, "Update transformed openapi spec",
                 "commit_transformed", "committed_transformed")
    /\ UNCHANGED <<data, has_changes, diff_raised, runs>>
    /\ UNCHANGED <<work, pushed>>
    /\ UNCHANGED tvars

\* Step 4c: git_push(); then return 0
MainPushTransformed ==
    /\ pc = "committed_transformed"
    /\ trace' = Append(trace, "push_transformed")
    /\ GitPush("push_transformed", "done", 0)
    /\ UNCHANGED <<data, has_changes, diff_raised, runs>>
    /\ UNCHANGED <<work, index, commits>>
    /\ UNCHANGED tvars

Terminated == pc \in {"done", "aborted", "crashed"}

\* the scheduler starts the script again: sys.exit(main()) of a new process
Reinvoke ==
    /\ Terminated
    /\ runs < MaxRuns
    /\ runs' = runs + 1
    /\ pc' = "start" /\ exit_code' = -1
    /\ data' = EmptyDoc /\ has_changes' = FALSE
    /\ trace' = <<>> /\ failed' = "none" /\ diff_raised' = FALSE
    /\ UNCHANGED Storage
    /\ UNCHANGED tvars

Next ==
    \/ MainConfig
    \/ MainDownload
    \/ MainSave
    \/ MainDiff
    \/ MainBranch
    \/ MainCommitRaw
    \/ MainPushRaw
    \/ MainTransform
    \/ MainCommitTransformed
    \/ MainPushTransformed
    \/ Reinvoke

Spec == Init /\ [][Next]_vars

(***************************************************************************)
(* Vocabulary of the pipeline properties.                                  *)
(***************************************************************************)
Executed(stage) == stage \in Range(trace)

\* main() has tested has_changes in this run
PastBranch == Executed("diff") /\ pc # "diffed"

NoChangeTrace == <<"fetch", "save", "diff">>

FullTrace ==
    <<"fetch", "save", "diff", "commit_raw", "push_raw", "transform",
      "commit_transformed", "push_transformed">>

PipelineStages ==
    {"fetch", "save", "commit_raw", "push_raw", "transform",
     "commit_transformed", "push_transformed"}

(***************************************************************************)
(* C1: when the change detector reports no change, the run ends in DONE    *)
(* with exit code 0 and without any commit or push; when it reports a      *)
(* change and no stage fails, the run ends with exit code 0 only after raw *)
(* commit, raw push, transform, transformed commit and transformed push,   *)
(* in this order.                                                          *)
(***************************************************************************)
C1_ChangeGating ==
    /\ (PastBranch /\ ~has_changes) =>
          /\ pc = "done" /\ exit_code = 0
          /\ trace = NoChangeTrace
    /\ (PastBranch /\ has_changes /\ failed = "none") =>
          /\ pc # "aborted" /\ pc # "crashed"
          /\ trace = SubSeq(FullTrace, 1, Len(trace))
          /\ pc = "done" <=> trace = FullTrace
          /\ pc = "done" <=> exit_code = 0

\* a full run followed by a run that found nothing new
C1_Witness ==
    /\ runs = 2 /\ pc = "done" /\ exit_code = 0
    /\ ~has_changes /\ ~diff_raised /\ trace = NoChangeTrace
    /\ Len(commits) = 3 /\ pushed = 3

(***************************************************************************)
(* C2: when one of the stages fetch, save raw, commit raw, push raw,       *)
(* transform, commit transformed, push transformed fails, the run has      *)
(* ended with a non-zero outcome and the failed stage is the last stage    *)
(* executed in the run.                                                    *)
(***************************************************************************)
C2_AbortPropagation ==
    failed \in PipelineStages =>
        /\ Terminated
        /\ exit_code # 0 /\ exit_code # -1
        /\ trace # <<>> /\ trace[Len(trace)] = failed
        /\ \A i \in 1..(Len(trace) - 1) : trace[i] # failed

C2_Witness ==
    /\ failed = "push_raw" /\ pc = "aborted" /\ exit_code = 1
    /\ trace = <<"fetch", "save", "diff", "commit_raw", "push_raw">>
    /\ pushed < Len(commits)

(***************************************************************************)
(* C3: a run whose change detection failed in the storage collaborator     *)
(* never ends as a successful run: it ends with a non-zero outcome.        *)
(***************************************************************************)
C3_DiffFailureAborts ==
    (diff_raised /\ PastBranch) => (pc # "done" /\ exit_code # 0)

(***************************************************************************)
(* C9 as stated: the transformed files written at the TRANSFORMED step are *)
(* the transformer's result on the document as fetched, the paths other    *)
(* than /token in the relative order of the fetched document.              *)
(***************************************************************************)
C9_TransformOfFetched ==
    pc = "transformed" =>
        /\ Loads(work[PRETTY_FILE]) = Transform(data)
        /\ Loads(work[COMPACT_FILE]) = Transform(data)
        /\ TokenFirstOrder(Keys(data.paths), Keys(Loads(work[PRETTY_FILE]).paths))

\* ascending in Python's str order
Ascending(ks) ==
    \A i, j \in 1..Len(ks) : i < j => Rank(ks[i]) < Rank(ks[j])

(***************************************************************************)
(* C9 amended: the transformed files written at the TRANSFORMED step are   *)
(* the transformer's result on the saved raw file, which lists the keys of *)
(* every mapping of the fetched document in ascending order: the paths     *)
(* other than /token appear in ascending key order, after /token, whatever *)
(* order the fetched document listed them in.                              *)
(***************************************************************************)
C9_TransformOfSavedFile ==
    pc = "transformed" =>
        LET out == Loads(work[PRETTY_FILE])
        IN  /\ work[PRETTY_FILE] = Text("indent2", out)
            /\ work[COMPACT_FILE] = Text("compact", out)
            /\ out = Transform(Loads(work[OUTPUT_FILE]))
            /\ Range(Keys(out.paths)) = Range(Keys(data.paths))
            /\ Len(out.paths) = Len(data.paths)
            /\ "/token" \in Range(Keys(data.paths)) => out.paths[1].path = "/token"
            /\ Ascending(SelectSeq(Keys(out.paths), LAMBDA k : k # "/token"))

C9_Witness ==
    /\ pc = "transformed"
    /\ Keys(data.paths) = <<"/b", "/token", "/a">>
    /\ Keys(Loads(work[PRETTY_FILE]).paths) = <<"/token", "/a", "/b">>

(***************************************************************************)
(* C10: right after git_diff(OUTPUT_FILE), its result is True exactly when *)
(* the file is untracked or differs from the last recorded snapshot, and   *)
(* the call has changed nothing in the storage.                            *)
(***************************************************************************)
C10_DiffResult ==
    pc = "diffed" =>
        (has_changes <=>
            (Untracked(OUTPUT_FILE) \/ work[OUTPUT_FILE] # HeadTree[OUTPUT_FILE]))

(***************************************************************************)
(* C15: when components.securitySchemes is missing or has no GetToken      *)
(* entry, the transformer merges no description, removes no scheme,        *)
(* renames no security key, injects no ApiToken and renames no tag: the    *)
(* output differs from the input at most in the order of the paths.        *)
(***************************************************************************)
C15_NoRewriteWithoutGetToken ==
    (tphase = "once"
        /\ ~(tin.hasComponents /\ tin.hasSchemes
             /\ \E i \in 1..Len(tin.schemes) : tin.schemes[i].name = "GetToken")) =>
        /\ tout = [tin EXCEPT !.paths = tout.paths]
        /\ Len(tout.paths) = Len(tin.paths)
        /\ Range(Keys(tout.paths)) = Range(Keys(tin.paths))
        /\ \A k \in Range(Keys(tin.paths)) :
              PathValue(tout.paths, k) = PathValue(tin.paths, k)

\* no GetToken scheme, yet everything the rewrite would touch is there
C15_Witness ==
    /\ tphase = "once"
    /\ tin.hasSchemes /\ HasScheme(tin.schemes, "ApiKey")
    /\ ~HasScheme(tin.schemes, "GetToken")
    /\ \E pm \in OperationsOf(tin) : ~OpAt(tin, pm).hasSecurity
    /\ \E pm \in OperationsOf(tin) : MentionsGetToken(OpAt(tin, pm).security)
    /\ \E pm \in OperationsOf(tin) : "DenyList" \in Range(OpAt(tin, pm).tags)
    /\ tout # tin

(***************************************************************************)
(* C16: when the GetToken scheme was present, the tags sequence of every   *)
(* operation object, with or without a security field, keeps its length,   *)
(* has 'Deny List' wherever the input had 'DenyList' and equals the input  *)
(* at every other position.                                                *)
(***************************************************************************)
C16_TagRename ==
    (tphase = "once" /\ GetTokenDeclared(tin)) =>
        \A pm \in OperationsOf(tin) :
            OpAt(tin, pm).hasTags =>
                LET a == OpAt(tin, pm).tags
                    b == OpAt(tout, pm).tags
                IN  /\ OpAt(tout, pm).hasTags
                    /\ Len(b) = Len(a)
                    /\ \A i \in 1..Len(a) :
                          IF a[i] = "DenyList" THEN b[i] = "Deny List"
                                               ELSE b[i] = a[i]

C16_Witness ==
    /\ tphase = "once" /\ GetTokenDeclared(tin)
    /\ \E pm \in OperationsOf(tin) :
          /\ ~OpAt(tin, pm).hasSecurity
          /\ OpAt(tin, pm).tags = <<"Public", "DenyList">>
          /\ OpAt(tout, pm).tags = <<"Public", "Deny List">>

(***************************************************************************)
(* C18: after the transformation of a document whose securitySchemes       *)
(* contained GetToken, no operation object has a security entry keyed      *)
(* GetToken.                                                               *)
(***************************************************************************)
C18_NoDanglingGetToken ==
    (tphase = "once" /\ GetTokenDeclared(tin)) =>
        \A pm \in OperationsOf(tout) :
            \A i \in 1..Len(OpAt(tout, pm).security) :
                OpAt(tout, pm).security[i].name # "GetToken"

C18_Witness ==
    /\ tphase = "once" /\ GetTokenDeclared(tin)
    /\ \E pm \in OperationsOf(tin) :
          /\ Len(OpAt(tin, pm).security) = 2
          /\ OpAt(tin, pm).security[1].name = "GetToken"
          /\ OpAt(tin, pm).security[2].name = "GetToken"

(***************************************************************************)
(* Change Records: the commits of the history, told apart by message.      *)
(***************************************************************************)
\* git_commit(filename, message="Update openapi spec")
RAW_MESSAGE == "Update openapi spec"

\* git_commit(transformed_files, message="Update transformed openapi spec")
TRANSFORMED_MESSAGE == "Update transformed openapi spec"

HasRecord(m) == \E i \in 1..Len(commits) : commits[i].message = m

\* the latest commit with message m
LatestRecord(m) ==
    commits[CHOOSE i \in 1..Len(commits) :
                /\ commits[i].message = m
                /\ \A j \in (i + 1)..Len(commits) : commits[j].message # m]

(***************************************************************************)
(* C11: every step that records something appends exactly one Change       *)
(* Record; a raw record only if the run has not recorded one before; a     *)
(* transformed record only if the run has not recorded one before and has  *)
(* recorded a raw record, which is the head of the history and is pushed.  *)
(***************************************************************************)
C11_OneRecordPerRun ==
    [][commits' # commits =>
          LET new == commits'[Len(commits')]
          IN  /\ commits' = Append(commits, new)
              /\ new.message \in {RAW_MESSAGE, TRANSFORMED_MESSAGE}
              /\ new.message = RAW_MESSAGE =>
                    /\ ~Executed("commit_raw")
                    /\ ~Executed("commit_transformed")
              /\ new.message = TRANSFORMED_MESSAGE =>
                    /\ ~Executed("commit_transformed")
                    /\ Executed("commit_raw") /\ Executed("push_raw")
                    /\ commits[Len(commits)].message = RAW_MESSAGE
                    /\ commits[Len(commits)].tree[OUTPUT_FILE] = DumpsSorted(data)
                    /\ pushed = Len(commits)]_vars

\* a second run that recorded its own raw and transformed records
C11_Witness ==
    /\ runs = 2 /\ trace = FullTrace
    /\ Len(commits) = 5
    /\ commits[4].message = RAW_MESSAGE
    /\ commits[5].message = TRANSFORMED_MESSAGE

\* both transformed files, written from one document
PairOf(tree) ==
    /\ tree[PRETTY_FILE].fmt = "indent2"
    /\ tree[COMPACT_FILE].fmt = "compact"
    /\ tree[PRETTY_FILE].doc = tree[COMPACT_FILE].doc

\* neither transformed file
NoPair(tree) == tree[PRETTY_FILE] = NoFile /\ tree[COMPACT_FILE] = NoFile

(***************************************************************************)
(* C12: every Change Record holds either none of the two transformed files *)
(* or both, written from the same document; a transformed Change Record    *)
(* holds both, written from the transform of the raw file it holds.        *)
(***************************************************************************)
C12_TransformedPairAtomic ==
    \A i \in 1..Len(commits) :
        /\ NoPair(commits[i].tree) \/ PairOf(commits[i].tree)
        /\ commits[i].message = TRANSFORMED_MESSAGE =>
              /\ PairOf(commits[i].tree)
              /\ commits[i].tree[PRETTY_FILE].doc =
                    Transform(Loads(commits[i].tree[OUTPUT_FILE]))

\* two transformed records of different documents, the second one recorded
\* over the files of the first
C12_Witness ==
    /\ Len(commits) = 5
    /\ commits[3].message = TRANSFORMED_MESSAGE
    /\ commits[5].message = TRANSFORMED_MESSAGE
    /\ commits[3].tree[PRETTY_FILE] # commits[5].tree[PRETTY_FILE]
    /\ commits[3].tree[COMPACT_FILE] # commits[5].tree[COMPACT_FILE]

(***************************************************************************)
(* C13: the step that finds the location missing ends main() with exit     *)
(* code 1, no stage has run, and the working files, the index, the history *)
(* and the remote are what they were.                                      *)
(***************************************************************************)
C13_NoConfigNoStep ==
    [][failed' = "config" =>
          /\ pc' = "aborted" /\ exit_code' = 1
          /\ trace' = <<>> /\ data' = EmptyDoc
          /\ work' = work /\ index' = index
          /\ commits' = commits /\ pushed' = pushed]_vars

\* the location is missing in a run against a storage that holds an archive
C13_Witness ==
    /\ failed = "config" /\ pc = "aborted" /\ exit_code = 1
    /\ runs = 2 /\ Len(commits) = 3 /\ trace = <<>>

(***************************************************************************)
(* C17: the stages of a run are executed in the order fetch, save, change  *)
(* detection, commit raw, push raw, transform, commit transformed, push    *)
(* transformed, each at most once; a transformed file is written only      *)
(* after this run's raw record has been committed and pushed.              *)
(***************************************************************************)
C17_StageOrder ==
    [][/\ Len(trace') <= Len(FullTrace)
       /\ trace' = SubSeq(FullTrace, 1, Len(trace'))
       /\ (work'[PRETTY_FILE] # work[PRETTY_FILE]
             \/ work'[COMPACT_FILE] # work[COMPACT_FILE]) =>
             /\ Executed("commit_raw") /\ Executed("push_raw")
             /\ commits[Len(commits)].message = RAW_MESSAGE
             /\ commits[Len(commits)].tree[OUTPUT_FILE] = work[OUTPUT_FILE]
             /\ pushed = Len(commits)]_vars

C17_Witness ==
    /\ trace = FullTrace /\ pc = "done"
    /\ work[PRETTY_FILE] # NoFile /\ work[COMPACT_FILE] # NoFile

(***************************************************************************)
(* C19: whenever a run has ended in DONE with exit code 0 and a raw Change *)
(* Record exists, a transformed Change Record exists and the latest one    *)
(* holds the transform of the raw file of the latest raw Change Record.    *)
(***************************************************************************)
C19_TransformedFollowsRaw ==
    (pc = "done" /\ exit_code = 0 /\ HasRecord(RAW_MESSAGE)) =>
        /\ HasRecord(TRANSFORMED_MESSAGE)
        /\ PairOf(LatestRecord(TRANSFORMED_MESSAGE).tree)
        /\ LatestRecord(TRANSFORMED_MESSAGE).tree[PRETTY_FILE].doc =
              Transform(Loads(LatestRecord(RAW_MESSAGE).tree[OUTPUT_FILE]))

(***************************************************************************)
(* Re-invocation without end against a fixed upstream document.  The       *)
(* storage starts empty or with a complete, pushed archive of another      *)
(* document.  Fairness: the scheduler keeps starting the script, main()    *)
(* keeps stepping, and every collaborator call that is made again and      *)
(* again eventually succeeds.                                              *)
(***************************************************************************)
\* the document the remote location serves in every run
UpstreamD == DocA

\* the working files and the tree of a complete archive of document d
ArchiveOf(d) ==
    [f \in Files |->
        IF f = OUTPUT_FILE THEN DumpsSorted(d)
        ELSE IF f = PRETTY_FILE THEN DumpPretty(Transform(SortDoc(d)))
        ELSE DumpCompact(Transform(SortDoc(d)))]

InitLive ==
    /\ TransformerIdle
    /\ pc = "start" /\ exit_code = -1
    /\ data = EmptyDoc /\ has_changes = FALSE
    /\ \/ /\ work = [f \in Files |-> NoFile]
          /\ index = [f \in Files |-> NoFile]
          /\ commits = <<Commit("initial", [f \in Files |-> NoFile])>>
          /\ pushed = 1
       \/ /\ work = ArchiveOf(DocC)
          /\ index = ArchiveOf(DocC)
          /\ commits =
                <<Commit("initial", [f \in Files |-> NoFile]),
                  Commit("Update openapi spec",
                         [ArchiveOf(DocC) EXCEPT ![PRETTY_FILE] = NoFile,
                                                 ![COMPACT_FILE] = NoFile]),
                  Commit("Update transformed openapi spec", ArchiveOf(DocC))>>
          /\ pushed = 3
    /\ trace = <<>> /\ failed = "none" /\ diff_raised = FALSE
    /\ runs = 1

\* Step 1 against the fixed upstream
MainDownloadFixed ==
    /\ pc = "configured"
    /\ trace' = Append(trace, "fetch")
    /\ \/ /\ data' = UpstreamD
          /\ pc' = "fetched"
          /\ UNCHANGED <<exit_code, failed>>
       \/ /\ Abort("fetch")
          /\ UNCHANGED data
    /\ UNCHANGED <<has_changes, diff_raised, runs>>
    /\ UNCHANGED Storage
    /\ UNCHANGED tvars

\* the scheduler starts the script again, any number of times; the run
\* counter stops at MaxRuns
ReinvokeAlways ==
    /\ Terminated
    /\ runs' = IF runs < MaxRuns THEN runs + 1 ELSE runs
    /\ pc' = "start" /\ exit_code' = -1
    /\ data' = EmptyDoc /\ has_changes' = FALSE
    /\ trace' = <<>> /\ failed' = "none" /\ diff_raised' = FALSE
    /\ UNCHANGED Storage
    /\ UNCHANGED tvars

NextLive ==
    \/ MainConfig
    \/ MainDownloadFixed
    \/ MainSave
    \/ MainDiff
    \/ MainBranch
    \/ MainCommitRaw
    \/ MainPushRaw
    \/ MainTransform
    \/ MainCommitTransformed
    \/ MainPushTransformed
    \/ ReinvokeAlways

Fairness ==
    /\ WF_vars(ReinvokeAlways)
    /\ WF_vars(MainBranch)
    /\ SF_vars(MainConfig /\ pc' = "configured")
    /\ SF_vars(MainDownloadFixed /\ pc' = "fetched")
    /\ SF_vars(MainSave /\ pc' = "saved")
    /\ SF_vars(MainDiff /\ ~diff_raised')
    /\ SF_vars(MainCommitRaw /\ pc' = "committed_raw")
    /\ SF_vars(MainPushRaw /\ pc' = "pushed_raw")
    /\ SF_vars(MainTransform /\ pc' = "transformed")
    /\ SF_vars(MainCommitTransformed /\ pc' = "committed_transformed")
    /\ SF_vars(MainPushTransformed /\ pc' = "done")

LiveSpec == InitLive /\ [][NextLive]_vars /\ Fairness

\* a raw record of UpstreamD and a transformed record of its transform are
\* in the history the remote has
PublishedUpstream ==
    /\ \E i \in 1..pushed :
          /\ commits[i].message = RAW_MESSAGE
          /\ commits[i].tree[OUTPUT_FILE] = DumpsSorted(UpstreamD)
    /\ \E i \in 1..pushed :
          /\ commits[i].message = TRANSFORMED_MESSAGE
          /\ PairOf(commits[i].tree)
          /\ commits[i].tree[PRETTY_FILE].doc = Transform(SortDoc(UpstreamD))

(***************************************************************************)
(* C14: with the upstream fixed at a document that differs from the last   *)
(* published one, re-invocation after every end of a run and collaborators *)
(* that eventually succeed, eventually a raw record of the document and a  *)
(* transformed record of its transform are recorded and pushed.            *)
(***************************************************************************)
C14_EventuallyPublished == <>PublishedUpstream

====
